---- MODULE Spec2Model ----
(***************************************************************************)
(* Model of the video composition pipeline of testivid-backend:            *)
(*   - sanitizeDrawText                  (routes/testimonial.js)           *)
(*   - POST /api/testimonials/:id/merge  (routes/testimonial.js)           *)
(*   - card text of POST /response/:id/generate-intro and of the public    *)
(*     POST /testimonial/merge           (routes/publicApi.js)             *)
(***************************************************************************)
EXTENDS Integers, Sequences, FiniteSets, TLC

(***************************************************************************)
(* Bounds of the model.                                                    *)
(***************************************************************************)
\* longest input string given to sanitizeDrawText
MaxLen == 2
\* number of responses of the testimonial composed by the single run of Spec
MaxResp == 3
\* last value of the millisecond clock read by Date.now()
MaxTime == 4

VARIABLES
  \* ---- sanitizer ----
  sanPc,      \* "in" | "once" | "twice"
  sanIn,      \* the text given to sanitizeDrawText
  sanOut,     \* sanitizeDrawText(sanIn)
  sanTwice,   \* sanitizeDrawText(sanOut)
  \* ---- card commands ----
  cardText,   \* a text of the request or of the records (name, position, question)
  cardCmd,    \* the card command a handler built from it
  \* ---- composition ----
  testimonial,            \* table testimonial: id -> row
  testimonial_responses,  \* table testimonial_responses: set of rows
  storage,                \* bucket "videos": the keys of the uploaded artifacts
  fs,                     \* the paths that exist in uploadDir
  now,                    \* the value Date.now() returns
  run,                    \* the requests being handled: run id -> handler state
  \* ---- requests, reminders, questions ----
  email_history,          \* table email_history: set of rows
  question                \* table question: set of rows

sanVars == <<sanPc, sanIn, sanOut, sanTwice>>
compVars == <<testimonial, testimonial_responses, storage, fs, now, run>>
cardVars == <<cardText, cardCmd>>
textVars == <<sanVars, cardVars>>
lifeVars == <<email_history, question>>
vars == <<sanVars, cardVars, compVars, lifeVars>>

(***************************************************************************)
(* Text.  A string is a sequence of characters; a character is named by a  *)
(* token.  "a" stands for any character no code of the repository treats   *)
(* specially.  RSQUO is U+2019, RDQUO is U+201D.                           *)
(***************************************************************************)
Chars ==
  { "a", "SPACE", "DASH", "LPAREN", "RPAREN", "RSQUO", "RDQUO",
    "BSLASH", "SQUOTE", "DQUOTE", "COLON", "SEMI", "LBRACK", "RBRACK",
    "DOLLAR", "BTICK" }

StringsUpTo(n) == UNION { [1..k -> Chars] : k \in 0..n }

\* String.prototype.replace with a regular expression without the g flag:
\* only the first occurrence of character c is replaced by the string r.
RECURSIVE ReplaceFirst(_, _, _)
ReplaceFirst(s, c, r) ==
  IF s = <<>> THEN <<>>
  ELSE IF Head(s) = c THEN r \o Tail(s)
  ELSE <<Head(s)>> \o ReplaceFirst(Tail(s), c, r)

\* String.prototype.replace with a /c/g regular expression: every
\* occurrence of character c is replaced by the string r.
RECURSIVE ReplaceAll(_, _, _)
ReplaceAll(s, c, r) ==
  IF s = <<>> THEN <<>>
  ELSE (IF Head(s) = c THEN r ELSE <<Head(s)>>) \o ReplaceAll(Tail(s), c, r)

\* function sanitizeDrawText(text = '')
sanitizeDrawText(text) ==
  LET s1 == ReplaceAll(text, "BSLASH", <<>>)
      s2 == ReplaceAll(s1, "SQUOTE", <<"RSQUO">>)
      s3 == ReplaceAll(s2, "DQUOTE", <<"RDQUO">>)
      s4 == ReplaceAll(s3, "COLON", <<"SPACE", "DASH">>)
      s5 == ReplaceAll(s4, "SEMI", <<"SPACE">>)
      s6 == ReplaceAll(s5, "LBRACK", <<"LPAREN">>)
      s7 == ReplaceAll(s6, "RBRACK", <<"RPAREN">>)
  IN  s7

Contains(s, c) == \E i \in 1..Len(s) : s[i] = c

(***************************************************************************)
(* The command line of a card.  drawtextPrefix and drawtextSuffix are the  *)
(* parts of the -filter_complex argument around the interpolated text:     *)
(*   "[0:v]drawtext=text='${nameText}':fontcolor=white...[a]"              *)
(* The command is run by child_process.exec, that is by /bin/sh -c.        *)
(***************************************************************************)
drawtextPrefix == <<"DQUOTE", "LBRACK", "a", "COLON", "a", "RBRACK", "a", "SQUOTE">>
drawtextSuffix == <<"SQUOTE", "COLON", "a", "LBRACK", "a", "RBRACK", "DQUOTE">>

ffmpegCommandIntro(nameText) == drawtextPrefix \o nameText \o drawtextSuffix

\* /bin/sh, inside a double-quoted word that opens at position 1: the
\* position of the double quote that closes the word (0 when none does).
\* A backslash quotes the character after it.
RECURSIVE ShellCloseFrom(_, _)
ShellCloseFrom(cmd, i) ==
  IF i > Len(cmd) THEN 0
  ELSE IF cmd[i] = "BSLASH" THEN ShellCloseFrom(cmd, i + 2)
  ELSE IF cmd[i] = "DQUOTE" THEN i
  ELSE ShellCloseFrom(cmd, i + 1)

ShellClose(cmd) == ShellCloseFrom(cmd, 2)

\* /bin/sh, inside the double-quoted word: an unquoted $ or backtick starts
\* a parameter expansion or a command substitution.
RECURSIVE ShellExpandsFrom(_, _, _)
ShellExpandsFrom(cmd, i, close) ==
  IF i >= close \/ i > Len(cmd) THEN FALSE
  ELSE IF cmd[i] = "BSLASH" THEN ShellExpandsFrom(cmd, i + 2, close)
  ELSE IF cmd[i] \in {"DOLLAR", "BTICK"} THEN TRUE
  ELSE ShellExpandsFrom(cmd, i + 1, close)

ShellExpands(cmd) ==
  ShellExpandsFrom(cmd, 2, IF ShellClose(cmd) = 0 THEN Len(cmd) + 1 ELSE ShellClose(cmd))

\* ffmpeg's filter-graph parser: the position of the single quote that
\* closes the quoted drawtext value opened by the last character of the
\* prefix (0 when none does).
RECURSIVE FilterCloseFrom(_, _)
FilterCloseFrom(cmd, i) ==
  IF i > Len(cmd) THEN 0
  ELSE IF cmd[i] = "SQUOTE" THEN i
  ELSE FilterCloseFrom(cmd, i + 1)

FilterClose(cmd) == FilterCloseFrom(cmd, Len(drawtextPrefix) + 1)

(***************************************************************************)
(* Composition: the data.                                                  *)
(***************************************************************************)
Seq2Set(s) == { s[k] : k \in 1..Len(s) }

\* every order in which a query without an ORDER BY clause may return rows
Orders(S) ==
  { s \in [1..Cardinality(S) -> S] : \A a \in S : \E k \in 1..Cardinality(S) : s[k] = a }

\* A path of uploadDir.  kind names the file-name pattern, id the identifier
\* and ts the timestamp interpolated into the name, ext the extension.
Path(kind, id, ts, ext) == [kind |-> kind, id |-> id, ts |-> ts, ext |-> ext]
NoPath == Path("none", 0, 0, "")

\* video_url of a response that has no recorded clip (the column is created
\* as "" by POST /request)
NoUrl == [name |-> 0, ext |-> ""]

\* question.order_position of question q: POST /add gives a new question the
\* position after the last one, so the k-th question has position k.
order_position(q) == q

\* const originalPath = path.join(uploadDir, path.basename(pathWithoutPrefix))
originalPath(video_url) == Path("clip", video_url.name, 0, video_url.ext)

\* const mp4Path = originalPath.replace(/\.webm$/, '.mp4')
mp4Path(video_url) ==
  Path("clip", video_url.name, 0, IF video_url.ext = "webm" THEN "mp4" ELSE video_url.ext)

\* `merged_testimonials/${mergedFileName}`, and the public URL of that key
StorageKey(p) == [folder |-> "merged_testimonials", file |-> p]
NoKey == [folder |-> "", file |-> NoPath]

\* the JSON body of a response: its error (or, on success, message) text
\* and the message of the caught exception, when the handler sends it
NoBody == [error |-> "", message |-> ""]

\* error.message of a rejected exec is "Command failed: <command>" followed
\* by the stderr of the subprocess; of a failed fs call, the errno text
Diagnostics == {"Command failed: ffmpeg (stderr A)", "Command failed: ffmpeg (stderr B)"}

\* the state of a handler that has not received its request
\* req.user.company_id: the company of the testimonials, and another one
Companies == {1, 2}

IdleRun ==
  [ handler |-> "merge", pc |-> "idle", id |-> 0, responses |-> <<>>, i |-> 1,
    downloadedVideos |-> <<>>, introPath |-> NoPath, questionPath |-> NoPath,
    j |-> 1, segments |-> <<>>, concatListPath |-> NoPath, concatList |-> <<>>,
    mergedPath |-> NoPath, mergedVideoUrl |-> NoKey, status |-> 0,
    videosIncluded |-> 0, company_id |-> 0, body |-> NoBody, result |-> <<>>, uploadError |-> "",
    \* history: what the run did
    skipped |-> {}, failedAt |-> "", made |-> {}, removed |-> {},
    uploaded |-> FALSE, updated |-> FALSE, before |-> NoKey ]

\* the rows of testimonial_responses of testimonial t with n responses: the
\* k-th answers question k; its clip is stored as <t>_<k>.webm
\* (POST /testimonial/save), under another name, or not recorded
RowsOf(t, n) ==
  { [id |-> 10 * t + k, testimonial_id |-> t, question_id |-> k] : k \in 1..n }

ClipChoices(row) ==
  { NoUrl, [name |-> row.id, ext |-> "webm"] }
    \cup (IF row.question_id = 1 THEN {[name |-> row.id, ext |-> "mp4"]} ELSE {})

Tables(rows) ==
  { { [id |-> r.id, testimonial_id |-> r.testimonial_id, question_id |-> r.question_id,
       video_url |-> f[r]] : r \in rows } :
    f \in { g \in [rows -> UNION { ClipChoices(r) : r \in rows }] :
              \A r \in rows : g[r] \in ClipChoices(r) } }

LifeIdle ==
  /\ email_history = {}
  /\ question = {}

CompIdle ==
  /\ testimonial = <<>>
  /\ testimonial_responses = {}
  /\ storage = {}
  /\ fs = {}
  /\ now = 0
  /\ run = <<>>

\* one request, for a testimonial with MaxResp responses
CompInit ==
  /\ testimonial = [t \in {1} |-> [video_url |-> NoKey, company_id |-> 1]]
  /\ testimonial_responses \in Tables(RowsOf(1, MaxResp))
  /\ storage = {}
  /\ fs = {}
  /\ now = 0
  /\ run = [r \in {1} |-> IdleRun]

(***************************************************************************)
(* router.post('/:id/merge'): one action per await of the handler.         *)
(***************************************************************************)
\* the texts of lines 440, 451, 455, 497, 570 and 595
ErrorText(code, stage) ==
  IF code = 200 THEN "Videos merged successfully"
  ELSE IF code = 404 THEN "Testimonial not found"
  ELSE IF stage = "responses" /\ code = 500 THEN "Failed to fetch testimonial responses"
  ELSE IF stage = "responses" THEN "No video responses found for this testimonial"
  ELSE IF stage = "download" THEN "Failed to download any videos for processing"
  ELSE "Failed to upload merged video"

Respond(r, code, stage) ==
  [r EXCEPT !.pc = "done", !.status = code, !.failedAt = stage,
            !.body = [error |-> ErrorText(code, stage), message |-> ""]]

\* a handler that logs the exception of a stage and goes on to publish
CatchAndGoOn(rn, stage, message) == [rn EXCEPT !.pc = "upload", !.failedAt = stage]

\* lines 597-600: an exception thrown anywhere in the handler (a rejected
\* exec, a failed fs call) ends the request with status 500; the body holds
\* error.message
Catch(rn, stage, message) ==
  [rn EXCEPT !.pc = "done", !.status = 500, !.failedAt = stage,
             !.body = [error |-> "Server error processing testimonial videos",
                       message |-> message]]

\* Date.now(): the timestamps a run reads are separated by the run of a
\* subprocess, which takes longer than a millisecond
lastTs(r) ==
  IF r.concatListPath # NoPath THEN r.concatListPath.ts
  ELSE IF r.questionPath # NoPath THEN r.questionPath.ts
  ELSE IF r.introPath # NoPath THEN r.introPath.ts
  ELSE -1

\* the next step of the handler reads Date.now()
ReadsClock(r) ==
  \/ r.pc \in {"intro", "title", "normalize", "card"}
  \/ r.pc = "download" /\ r.i > Len(r.responses)

\* a millisecond passes.  Date.now() enters the state only through the
\* names it is interpolated into, so the clock is advanced only for a
\* handler that is about to read it and has already read this value
Tick ==
  /\ now < MaxTime
  /\ \E r \in DOMAIN run : ReadsClock(run[r]) /\ now <= lastTs(run[r])
  /\ now' = now + 1
  /\ UNCHANGED <<testimonial, testimonial_responses, storage, fs, run, textVars, lifeVars>>

\* lines 424-458: the testimonial and its responses are read (db tells
\* whether the two queries succeed); the query of the responses has no
\* order clause
\* a handler that does not compare the company of the testimonial
AnyCompany(company_id, row) == TRUE

\* .eq('company_id', company_id) of line 435; testimonial.company_id !==
\* company_id of line 641
SameCompany(company_id, row) == row.company_id = company_id

MergeStart(r, db, company_id) ==
  /\ run[r].pc = "idle"
  /\ \E id \in DOMAIN testimonial :
     \E rows \in Orders({ x \in testimonial_responses : x.testimonial_id = id }) :
       LET rn == [run[r] EXCEPT !.id = id, !.company_id = company_id,
                                !.before = testimonial[id].video_url]
       IN  run' = [run EXCEPT ![r] =
             IF db = "testimonialError" \/ ~SameCompany(company_id, testimonial[id])
             THEN Respond(rn, 404, "testimonial")
             ELSE IF db = "responsesError"
             THEN Respond(rn, 500, "responses")
             ELSE IF Len(rows) = 0
             THEN Respond(rn, 400, "responses")
             ELSE [rn EXCEPT !.pc = "download", !.responses = rows, !.i = 1]]
  /\ UNCHANGED <<testimonial, testimonial_responses, storage, fs, now, textVars, lifeVars>>


\* a handler without the try/catch of lines 464-493: the error of one clip
\* ends the request
OnClipErrorAbort(rn, response) ==
  Respond([rn EXCEPT !.skipped = @ \cup {response.id}], 500, "download")

\* lines 472-475 and 491-493: the error of one clip is logged and the loop
\* goes on with the next response
OnClipError(rn, response) ==
  [rn EXCEPT !.pc = "download", !.i = @ + 1, !.skipped = @ \cup {response.id}]

\* lines 461-478: the next response is fetched; a response without a clip,
\* with a URL that does not parse, or whose download fails is passed over
FetchClip(r, ok) ==
  /\ run[r].pc = "download"
  /\ run[r].i <= Len(run[r].responses)
  /\ LET response == run[r].responses[run[r].i]
     IN  IF response.video_url = NoUrl \/ ~ok
         THEN /\ run' = [run EXCEPT ![r] = OnClipError(@, response)]
              /\ fs' = fs
         ELSE /\ fs' = fs \cup {originalPath(response.video_url)}
              /\ run' = [run EXCEPT ![r].pc = "convert",
                                    ![r].made = @ \cup {originalPath(response.video_url)}]
  /\ UNCHANGED <<testimonial, testimonial_responses, storage, now, textVars, lifeVars>>

\* lines 480-493: ffmpeg has run on the clip and the raw file is deleted.
\* For a clip not named *.webm the output path is the input path: ffmpeg
\* refuses it or, in older versions, writes over its input, and the file
\* deleted is then the converted one.  fs.unlinkSync throws when the raw
\* file is gone.  The exit code is all the handler looks at: ffmpeg may
\* exit 0 and have written no output ("noOutput").
ConvertClip(r, exit) ==
  /\ run[r].pc = "convert"
  /\ LET response == run[r].responses[run[r].i]
         orig == originalPath(response.video_url)
         mp4 == mp4Path(response.video_url)
         written == IF exit = "ok" THEN {mp4} ELSE {}
     IN  IF exit # "error"
         THEN /\ fs' = (fs \cup written) \ {orig}
              /\ run' = [run EXCEPT ![r] =
                   IF orig \in fs
                   THEN [@ EXCEPT !.pc = "download", !.i = @ + 1,
                           !.made = @ \cup written, !.removed = @ \cup {orig},
                           !.downloadedVideos = Append(@,
                              [path |-> mp4, questionId |-> response.question_id,
                               response |-> response.id])]
                   ELSE OnClipError([@ EXCEPT !.made = @ \cup written], response)]
         ELSE /\ fs' = fs
              /\ run' = [run EXCEPT ![r] = OnClipError(@, response)]
  /\ UNCHANGED <<testimonial, testimonial_responses, storage, now, textVars, lifeVars>>

\* a handler without the check of line 496
NoVideosUnchecked(rn) == FALSE

\* line 496: downloadedVideos.length === 0
NoVideos(rn) == Len(rn.downloadedVideos) = 0

\* lines 496-520: after the loop; no clip, no composition
StartIntro(r) ==
  /\ run[r].pc = "download"
  /\ run[r].i > Len(run[r].responses)
  /\ run' = [run EXCEPT ![r] =
       IF NoVideos(@)
       THEN Respond(@, 400, "download")
       ELSE [@ EXCEPT !.pc = "intro", !.introPath = Path("intro", run[r].id, now, "mp4")]]
  /\ UNCHANGED <<testimonial, testimonial_responses, storage, fs, now, textVars, lifeVars>>

\* const questionPath = path.join(uploadDir, `question_${video.questionId}_${Date.now()}.mp4`)
questionPath(video) == Path("question", video.questionId, now, "mp4")

\* lines 520-541: the intro card is made, the first title card is started
IntroCard(r, ok) ==
  /\ run[r].pc = "intro"
  /\ IF ok
     THEN /\ now > lastTs(run[r])
          /\ fs' = fs \cup {run[r].introPath}
          /\ run' = [run EXCEPT ![r].pc = "title", ![r].j = 1,
                                ![r].segments = <<run[r].introPath>>,
                                ![r].made = @ \cup {run[r].introPath},
                                ![r].questionPath = questionPath(run[r].downloadedVideos[1])]
     ELSE /\ fs' = fs
          /\ \E message \in Diagnostics :
               run' = [run EXCEPT ![r] = Catch(@, "intro", message)]
  /\ UNCHANGED <<testimonial, testimonial_responses, storage, now, textVars, lifeVars>>

\* a loop that pushes the clip alone
PushClipOnly(segments, card, video) == segments \o <<video.path>>

\* lines 544-545: segments.push(questionPath); segments.push(video.path)
PushSegments(segments, card, video) == segments \o <<card, video.path>>

\* lines 541-557: a title card is made; it and its clip enter the segments;
\* the next title card is started or, after the last, the concat list is
\* written and the concatenation started
TitleCard(r, ok) ==
  /\ run[r].pc = "title"
  /\ IF ok
     THEN LET video == run[r].downloadedVideos[run[r].j]
              segs == PushSegments(run[r].segments, run[r].questionPath, video)
          IN  /\ now > lastTs(run[r])
              /\ IF run[r].j < Len(run[r].downloadedVideos)
                 THEN /\ fs' = fs \cup {run[r].questionPath}
                      /\ run' = [run EXCEPT ![r].j = @ + 1, ![r].segments = segs,
                           ![r].made = @ \cup {run[r].questionPath},
                           ![r].questionPath =
                              questionPath(run[r].downloadedVideos[run[r].j + 1])]
                 ELSE LET list == Path("concat_list", run[r].id, now, "txt")
                      IN  /\ fs' = fs \cup {run[r].questionPath, list}
                          /\ run' = [run EXCEPT ![r].pc = "concat", ![r].segments = segs,
                               ![r].made = @ \cup {run[r].questionPath, list},
                               ![r].concatListPath = list, ![r].concatList = segs,
                               ![r].mergedPath = Path("testimonial", run[r].id, now, "mp4")]
     ELSE /\ fs' = fs
          /\ \E message \in Diagnostics :
               run' = [run EXCEPT ![r] = Catch(@, "title", message)]
  /\ UNCHANGED <<testimonial, testimonial_responses, storage, now, textVars, lifeVars>>

\* lines 556-566: ffmpeg concatenates the files the list names; it fails
\* when one of them is missing.  The merged file is read (readFileSync
\* throws when ffmpeg exited 0 and wrote none) and its upload started.
Concat(r, exit) ==
  /\ run[r].pc = "concat"
  /\ IF /\ exit = "ok"
        /\ run[r].concatListPath \in fs
        /\ Seq2Set(run[r].concatList) \subseteq fs
     THEN /\ fs' = fs \cup {run[r].mergedPath}
          /\ run' = [run EXCEPT ![r].pc = "upload", ![r].made = @ \cup {run[r].mergedPath}]
     ELSE /\ fs' = fs
          /\ \E message \in Diagnostics :
               run' = [run EXCEPT ![r] = Catch(@, "concat", message)]
  /\ UNCHANGED <<testimonial, testimonial_responses, storage, now, textVars, lifeVars>>

\* a handler that logs the error of the upload and goes on
OnUploadErrorGoOn(rn) == [rn EXCEPT !.pc = "update", !.failedAt = "upload"]

\* lines 568-571: if (uploadError) return res.status(500).json(...)
OnUploadError(rn) == Respond(rn, 500, "upload")

\* lines 564-566 and 744-747: { contentType: "video/mp4", upsert: true }
upsert == TRUE

\* the error supabase.storage.upload returns: the service refuses to write
\* over an object unless upsert is set; ok tells whether the service is
\* reached and accepts the bytes
UploadError(store, key, ok) ==
  IF ~ok THEN "upload failed"
  ELSE IF key \in store /\ ~upsert THEN "The resource already exists"
  ELSE ""

\* lines 563-584: the upload has ended; on success the public URL is taken
\* and the update of the record started
Upload(r, ok) ==
  /\ run[r].pc = "upload"
  /\ LET uploadError == UploadError(storage, StorageKey(run[r].mergedPath), ok)
     IN  IF uploadError = ""
         THEN /\ storage' = storage \cup {StorageKey(run[r].mergedPath)}
              /\ run' = [run EXCEPT ![r].pc = "update", ![r].uploaded = TRUE,
                                    ![r].mergedVideoUrl = StorageKey(run[r].mergedPath)]
         ELSE /\ storage' = storage
              /\ run' = [run EXCEPT ![r] = OnUploadError([@ EXCEPT !.uploadError = uploadError])]
  /\ UNCHANGED <<testimonial, testimonial_responses, fs, now, textVars, lifeVars>>

\* line 591: the files the success path deletes, in this order
CleanupList(r) ==
  <<r.introPath, r.concatListPath, r.mergedPath>>
    \o SelectSeq(r.segments, LAMBDA f : f.kind = "question")
    \o [k \in 1..Len(r.downloadedVideos) |-> r.downloadedVideos[k].path]

CleanupFiles(r) == Seq2Set(CleanupList(r))

\* lines 591-593: forEach(file => { if (fs.existsSync(file)) fs.unlinkSync(file) }):
\* the files of list deleted when the unlink of the bad-th throws (bad = 0:
\* no unlink throws)
Deleted(list, bad) == { list[k] : k \in 1..(IF bad = 0 THEN Len(list) ELSE bad - 1) }

\* line 595: res.json({ mergedVideoUrl, message, videosIncluded:
\* downloadedVideos.length })
MergeResult(rn) ==
  [rn EXCEPT !.videosIncluded = Len(rn.downloadedVideos),
             !.result = [mergedVideoUrl |-> rn.mergedVideoUrl,
                         message |-> "Videos merged successfully",
                         videosIncluded |-> Len(rn.downloadedVideos)]]

\* lines 581-600: the update has ended (its error is only logged); the
\* temporary files are deleted and the success is reported; an unlink that
\* throws ends the loop and the request in the catch
UpdateRecord(r, ok, bad) ==
  /\ run[r].pc = "update"
  /\ bad \in 0..Len(CleanupList(run[r]))
  /\ bad # 0 => /\ CleanupList(run[r])[bad] \in fs
                /\ CleanupList(run[r])[bad] \notin Deleted(CleanupList(run[r]), bad)
  /\ testimonial' = IF ok THEN [testimonial EXCEPT ![run[r].id].video_url = run[r].mergedVideoUrl]
                    ELSE testimonial
  /\ fs' = fs \ Deleted(CleanupList(run[r]), bad)
  /\ LET rn == [run[r] EXCEPT !.updated = ok,
                  !.removed = @ \cup (Deleted(CleanupList(run[r]), bad) \cap fs)]
     IN  IF bad = 0
         THEN run' = [run EXCEPT ![r] = MergeResult(Respond(rn, 200, ""))]
         ELSE \E message \in Diagnostics :
                run' = [run EXCEPT ![r] = Catch(rn, "cleanup", message)]
  /\ UNCHANGED <<testimonial_responses, storage, now, textVars, lifeVars>>

Next ==
  \/ Tick
  \/ \E r \in DOMAIN run, db \in {"ok", "testimonialError", "responsesError"},
        company_id \in Companies :
        MergeStart(r, db, company_id)
  \/ \E r \in DOMAIN run, ok \in BOOLEAN : FetchClip(r, ok)
  \/ \E r \in DOMAIN run, exit \in {"ok", "error", "noOutput"} : ConvertClip(r, exit)
  \/ \E r \in DOMAIN run : StartIntro(r)
  \/ \E r \in DOMAIN run, ok \in BOOLEAN : IntroCard(r, ok)
  \/ \E r \in DOMAIN run, ok \in BOOLEAN : TitleCard(r, ok)
  \/ \E r \in DOMAIN run, exit \in {"ok", "error", "noOutput"} : Concat(r, exit)
  \/ \E r \in DOMAIN run, ok \in BOOLEAN : Upload(r, ok)
  \/ \E r \in DOMAIN run, ok \in BOOLEAN, bad \in 0..(3 + 2 * MaxResp) :
        UpdateRecord(r, ok, bad)

\* two requests at a time; two testimonials of one company, each with the
\* response to the company's first question, its clip stored as
\* POST /testimonial/save names it
ConcInit ==
  /\ testimonial = [t \in {1, 2} |-> [video_url |-> NoKey, company_id |-> 1]]
  /\ testimonial_responses =
       { [id |-> x.id, testimonial_id |-> x.testimonial_id, question_id |-> x.question_id,
          video_url |-> [name |-> x.id, ext |-> "webm"]] : x \in RowsOf(1, 1) \cup RowsOf(2, 1) }
  /\ storage = {}
  /\ fs = {}
  /\ now = 0
  /\ run = [r \in {1, 2} |-> IdleRun]

(***************************************************************************)
(* router.post('/response/:id/generate-intro'): one title card and the     *)
(* response's clip; one action per await of the handler.                   *)
(***************************************************************************)
\* `responses_with_intro/${finalFileName}`, and the public URL of that key
IntroKey(p) == [folder |-> "responses_with_intro", file |-> p]

\* the columns of a response that the handler is to write or to keep
IntroColumns(row) ==
  [intro_video_url |-> row.intro_video_url, intro_generated |-> row.intro_generated,
   video_url |-> row.video_url]

\* the texts of lines 625, 637, 642, 646, 650, 668, 750, 791 and 796
IntroText(code, stage) ==
  IF code = 200 THEN "Video with question intro generated successfully"
  ELSE IF stage = "response" THEN "Testimonial response not found"
  ELSE IF stage = "testimonial" THEN "Parent testimonial not found"
  ELSE IF code = 403 THEN "Unauthorized access to this testimonial"
  ELSE IF stage = "video_url" THEN "No video available for this response"
  ELSE IF stage = "question" THEN "No question text available for this response"
  ELSE IF stage = "download" THEN "Failed to download original video"
  ELSE IF stage = "upload" THEN "Failed to upload video with intro"
  ELSE "Failed to process video"

\* every response of the handler but that of the outer catch; the inner
\* catch of lines 794-797 answers 500 with a fixed text
IntroRespond(r, code, stage) ==
  [r EXCEPT !.pc = "done", !.status = code, !.failedAt = stage,
            !.body = [error |-> IntroText(code, stage), message |-> ""]]

\* the request has not been received
IdleIntro == [IdleRun EXCEPT !.handler = "generate-intro", !.pc = "request"]

\* lines 604-651: the response and its testimonial are read and checked
IntroStart(r, db, company_id) ==
  /\ run[r].pc = "request"
  /\ \E response \in testimonial_responses :
       LET rn == [run[r] EXCEPT !.id = response.id, !.responses = <<response>>,
                                !.company_id = company_id,
                                !.before = IntroColumns(response)]
       IN  run' = [run EXCEPT ![r] =
             IF db = "responseError" THEN IntroRespond(rn, 404, "response")
             ELSE IF db = "testimonialError" THEN IntroRespond(rn, 404, "testimonial")
             ELSE IF ~SameCompany(company_id, testimonial[response.testimonial_id])
             THEN IntroRespond(rn, 403, "company")
             ELSE IF response.video_url = NoUrl THEN IntroRespond(rn, 400, "video_url")
             ELSE IF db = "noQuestionText" THEN IntroRespond(rn, 400, "question")
             ELSE [rn EXCEPT !.pc = "fetch"]]
  /\ UNCHANGED <<testimonial, testimonial_responses, storage, fs, now, textVars, lifeVars>>

\* lines 654-674: the clip is downloaded and written
IntroFetch(r, ok) ==
  /\ run[r].pc = "fetch"
  /\ LET orig == originalPath(run[r].responses[1].video_url)
     IN  IF ok
         THEN /\ fs' = fs \cup {orig}
              /\ run' = [run EXCEPT ![r].pc = "normalize", ![r].made = @ \cup {orig}]
         ELSE /\ fs' = fs
              /\ run' = [run EXCEPT ![r] = IntroRespond(@, 500, "download")]
  /\ UNCHANGED <<testimonial, testimonial_responses, storage, now, textVars, lifeVars>>

\* lines 681-704: ffmpeg has run on the clip; the raw file is deleted when
\* it is named *.webm; the title card is started
IntroConvert(r, exit) ==
  /\ run[r].pc = "normalize"
  /\ LET response == run[r].responses[1]
         orig == originalPath(response.video_url)
         mp4 == mp4Path(response.video_url)
         written == IF exit = "ok" THEN {mp4} ELSE {}
         unlinked == IF response.video_url.ext = "webm" THEN {orig} ELSE {}
     IN  IF exit = "error" \/ ~(unlinked \subseteq fs)
         THEN /\ fs' = fs \cup written
              /\ run' = [run EXCEPT ![r] =
                   IntroRespond([@ EXCEPT !.made = @ \cup written], 500, "convert")]
         ELSE /\ fs' = (fs \cup written) \ unlinked
              /\ run' = [run EXCEPT ![r].pc = "card",
                   ![r].made = @ \cup written, ![r].removed = @ \cup unlinked,
                   ![r].downloadedVideos =
                      <<[path |-> mp4, questionId |-> response.question_id,
                         response |-> response.id]>>,
                   ![r].questionPath = Path("question", response.question_id, now, "mp4")]
  /\ UNCHANGED <<testimonial, testimonial_responses, storage, now, textVars, lifeVars>>

\* lines 720-734: the title card is made, the concat list written and the
\* concatenation started
IntroTitle(r, ok) ==
  /\ run[r].pc = "card"
  /\ IF ok
     THEN LET list == Path("concat_list", run[r].id, now, "txt")
              segs == <<run[r].questionPath, run[r].downloadedVideos[1].path>>
          IN  /\ now > lastTs(run[r])
              /\ fs' = fs \cup {run[r].questionPath, list}
              /\ run' = [run EXCEPT ![r].pc = "merge", ![r].segments = segs,
                   ![r].made = @ \cup {run[r].questionPath, list},
                   ![r].concatListPath = list, ![r].concatList = segs,
                   ![r].mergedPath = Path("response_with_intro", run[r].id, now, "mp4")]
     ELSE /\ fs' = fs
          /\ run' = [run EXCEPT ![r] = IntroRespond(@, 500, "title")]
  /\ UNCHANGED <<testimonial, testimonial_responses, storage, now, textVars, lifeVars>>

\* lines 734-746: ffmpeg concatenates the card and the clip; the final file
\* is read and its upload started
IntroConcat(r, ok) ==
  /\ run[r].pc = "merge"
  /\ IF /\ ok
        /\ run[r].concatListPath \in fs
        /\ Seq2Set(run[r].concatList) \subseteq fs
     THEN /\ fs' = fs \cup {run[r].mergedPath}
          /\ run' = [run EXCEPT ![r].pc = "publish", ![r].made = @ \cup {run[r].mergedPath}]
     ELSE /\ fs' = fs
          /\ run' = [run EXCEPT ![r] = IntroRespond(@, 500, "concat")]
  /\ UNCHANGED <<testimonial, testimonial_responses, storage, now, textVars, lifeVars>>

\* lines 740-771: the upload has ended; on success the public URL is taken
\* and the update of the response started
IntroUpload(r, ok) ==
  /\ run[r].pc = "publish"
  /\ LET uploadError == UploadError(storage, IntroKey(run[r].mergedPath), ok)
     IN  IF uploadError = ""
         THEN /\ storage' = storage \cup {IntroKey(run[r].mergedPath)}
              /\ run' = [run EXCEPT ![r].pc = "save", ![r].uploaded = TRUE,
                                    ![r].mergedVideoUrl = IntroKey(run[r].mergedPath)]
         ELSE /\ storage' = storage
              /\ run' = [run EXCEPT ![r] =
                   IntroRespond([@ EXCEPT !.uploadError = uploadError], 500, "upload")]
  /\ UNCHANGED <<testimonial, testimonial_responses, fs, now, textVars, lifeVars>>

\* lines 783-786: the files the success path deletes, in this order
IntroCleanupList(r) ==
  <<r.questionPath, r.concatListPath, r.downloadedVideos[1].path, r.mergedPath>>

\* .update({ intro_video_url, intro_generated: true }).eq('id', id)
SetIntro(rows, id, url) ==
  { IF x.id = id THEN [x EXCEPT !.intro_video_url = url, !.intro_generated = TRUE] ELSE x :
      x \in rows }

\* lines 764-797: the update has ended (its error is only logged); the
\* temporary files are deleted (the unlink of the bad-th throws, 0: none
\* does) and the success is reported
IntroUpdate(r, ok, bad) ==
  /\ run[r].pc = "save"
  /\ bad \in 0..Len(IntroCleanupList(run[r]))
  /\ bad # 0 => /\ IntroCleanupList(run[r])[bad] \in fs
                /\ IntroCleanupList(run[r])[bad] \notin Deleted(IntroCleanupList(run[r]), bad)
  /\ testimonial_responses' =
       IF ok THEN SetIntro(testimonial_responses, run[r].id, run[r].mergedVideoUrl)
       ELSE testimonial_responses
  /\ fs' = fs \ Deleted(IntroCleanupList(run[r]), bad)
  /\ LET rn == [run[r] EXCEPT !.updated = ok,
                  !.removed = @ \cup (Deleted(IntroCleanupList(run[r]), bad) \cap fs)]
     IN  run' = [run EXCEPT ![r] =
           IF bad = 0 THEN IntroRespond(rn, 200, "") ELSE IntroRespond(rn, 500, "cleanup")]
  /\ UNCHANGED <<testimonial, storage, now, textVars, lifeVars>>

IntroNext ==
  \/ \E r \in DOMAIN run,
        db \in {"ok", "responseError", "testimonialError", "noQuestionText"},
        company_id \in Companies :
        IntroStart(r, db, company_id)
  \/ \E r \in DOMAIN run, ok \in BOOLEAN : IntroFetch(r, ok)
  \/ \E r \in DOMAIN run, exit \in {"ok", "error", "noOutput"} : IntroConvert(r, exit)
  \/ \E r \in DOMAIN run, ok \in BOOLEAN : IntroTitle(r, ok)
  \/ \E r \in DOMAIN run, ok \in BOOLEAN : IntroConcat(r, ok)
  \/ \E r \in DOMAIN run, ok \in BOOLEAN : IntroUpload(r, ok)
  \/ \E r \in DOMAIN run, ok \in BOOLEAN, bad \in 0..4 : IntroUpdate(r, ok, bad)

\* the rows of RowsOf(t, n) with the columns generate-intro writes
IntroTables(rows) ==
  { { [id |-> x.id, testimonial_id |-> x.testimonial_id, question_id |-> x.question_id,
       video_url |-> x.video_url, intro_video_url |-> NoKey, intro_generated |-> FALSE] :
      x \in t } : t \in Tables(rows) }

\* a merge request and a generate-intro request, for a testimonial with one
\* response
IntroInit ==
  /\ testimonial = [t \in {1} |-> [video_url |-> NoKey, company_id |-> 1]]
  /\ testimonial_responses \in IntroTables(RowsOf(1, 1))
  /\ storage = {}
  /\ fs = {}
  /\ now = 0
  /\ run = [r \in {1, 2} |-> IF r = 1 THEN IdleRun ELSE IdleIntro]

(***************************************************************************)
(* Sanitizer specification: the input ranges over every string of at most  *)
(* MaxLen characters; the actions apply sanitizeDrawText once and twice.   *)
(***************************************************************************)
CardIdle ==
  /\ cardText = <<>>
  /\ cardCmd = [handler |-> "", field |-> "", text |-> <<>>, command |-> <<>>]

SanIdle ==
  /\ sanPc = "in"
  /\ sanIn = <<>>
  /\ sanOut = <<>>
  /\ sanTwice = <<>>

SanInit ==
  /\ sanPc = "in"
  /\ sanIn \in StringsUpTo(MaxLen)
  /\ sanOut = <<>>
  /\ sanTwice = <<>>
  /\ CardIdle
  /\ CompIdle
  /\ LifeIdle

Sanitize ==
  /\ sanPc = "in"
  /\ sanOut' = sanitizeDrawText(sanIn)
  /\ sanPc' = "once"
  /\ UNCHANGED <<sanIn, sanTwice, cardVars, compVars, lifeVars>>

SanitizeAgain ==
  /\ sanPc = "once"
  /\ sanTwice' = sanitizeDrawText(sanOut)
  /\ sanPc' = "twice"
  /\ UNCHANGED <<sanIn, sanOut, cardVars, compVars, lifeVars>>

SanNext == Sanitize \/ SanitizeAgain

SpecSan == SanInit /\ [][SanNext]_vars

(***************************************************************************)
(* Card commands: the text a handler interpolates into the drawtext        *)
(* argument of a card command, for every text of at most MaxLen characters.*)
(***************************************************************************)
NoCmd == [handler |-> "", field |-> "", text |-> <<>>, command |-> <<>>]

Card(handler, field, text) ==
  [handler |-> handler, field |-> field, text |-> text, command |-> ffmpegCommandIntro(text)]

CardInit ==
  /\ cardText \in StringsUpTo(MaxLen)
  /\ cardCmd = NoCmd
  /\ SanIdle
  /\ CompIdle
  /\ LifeIdle

\* POST /:id/merge: nameText, positionText of the intro card, safeQuestion
\* of a title card
MergeCard(field) ==
  /\ cardCmd = NoCmd
  /\ cardCmd' = Card("merge", field, sanitizeDrawText(cardText))
  /\ UNCHANGED <<cardText, sanVars, compVars, lifeVars>>

\* POST /response/:id/generate-intro: safeQuestion of the title card
GenerateIntroCard ==
  /\ cardCmd = NoCmd
  /\ cardCmd' = Card("generate-intro", "question.text", sanitizeDrawText(cardText))
  /\ UNCHANGED <<cardText, sanVars, compVars, lifeVars>>

\* POST /testimonial/merge: nameText = req.body.name,
\* titleText = req.body.title || ''
PublicMergeCard(field) ==
  /\ cardCmd = NoCmd
  /\ cardCmd' = Card("public-merge", field, cardText)
  /\ UNCHANGED <<cardText, sanVars, compVars, lifeVars>>

CardNext ==
  \/ \E field \in {"customer_name", "customer_position", "question.text"} : MergeCard(field)
  \/ GenerateIntroCard
  \/ \E field \in {"name", "title"} : PublicMergeCard(field)

SpecCards == CardInit /\ [][CardNext]_vars

Init ==
  /\ CompInit
  /\ SanIdle
  /\ CardIdle
  /\ LifeIdle

Spec == Init /\ [][Next]_vars

InitConc ==
  /\ ConcInit
  /\ SanIdle
  /\ CardIdle
  /\ LifeIdle

SpecConc == InitConc /\ [][Next]_vars

\* line 12: execPromise = util.promisify(exec), called with the command
\* alone (482, 520, 541, 557): no timeout option and no kill.  A subprocess
\* that never exits leaves the handler at its await.
NeverExits(r) ==
  /\ run[r].pc \in {"convert", "intro", "title", "concat"}
  /\ run' = [run EXCEPT ![r].pc = "blocked"]
  /\ UNCHANGED <<testimonial, testimonial_responses, storage, fs, now, textVars, lifeVars>>

\* one request, for a testimonial with two responses
LiveInit ==
  /\ testimonial = [t \in {1} |-> [video_url |-> NoKey, company_id |-> 1]]
  /\ testimonial_responses \in Tables(RowsOf(1, 2))
  /\ storage = {}
  /\ fs = {}
  /\ now = 0
  /\ run = [r \in {1} |-> IdleRun]

InitLive ==
  /\ LiveInit
  /\ SanIdle
  /\ CardIdle
  /\ LifeIdle

NextLive == Next \/ \E r \in DOMAIN run : NeverExits(r)

\* every step of the handler that can be taken is taken: the event loop
\* runs every continuation whose promise has settled
SpecLive == InitLive /\ [][NextLive]_vars /\ WF_vars(NextLive)

InitIntro ==
  /\ IntroInit
  /\ SanIdle
  /\ CardIdle
  /\ LifeIdle

NextIntro == Next \/ IntroNext

SpecIntro == InitIntro /\ [][NextIntro]_vars

(***************************************************************************)
(* The life of a testimonial request: the token-authenticated public       *)
(* operations, the cancellation, the reminders and the scheduled jobs.     *)
(* Time is counted in days.                                                *)
(***************************************************************************)
\* process.env.REMINDER_INTERVAL_DAYS || 7, here one day
reminderIntervalDays == 1

\* process.env.MAX_REMINDERS || 3
maxReminders == 3

\* the state of a handler or job of this part that has not started; seen is
\* the row its first query returns, wrote what the testimonial was at each
\* of its writes
LifeRun(handler) ==
  [ handler |-> handler, pc |-> "idle", id |-> 0, status |-> 0, seen |-> <<>>,
    reminderCount |-> 0, wrote |-> {} ]

\* new Date(testimonial.expires_at) < new Date()
Expired(row) == row.expires_at < now

\* what a write finds: the status of the row and whether it has expired
Found(row) == [status |-> row.status, expired |-> Expired(row)]

LifeRespond(r, code) == [r EXCEPT !.pc = "done", !.status = code]

\* video_url of the request body of POST /submit/:token
SubmittedUrl == [name |-> 99, ext |-> "mp4"]

\* `testimonial_videos/${testimonial.id}_${matchingResponse.id}.webm`
SavedUrl(row) == [name |-> row.id, ext |-> "webm"]

\* POST /submit/:token (testimonial.js 808-891) and POST
\* /testimonial/submit/:token (publicApi.js 84-166), lines 818-835: the
\* testimonial is looked up by token among the pending ones and its expiry
\* is checked; the query of its responses is started
SubmitRead(r) ==
  /\ run[r].handler = "submit" /\ run[r].pc = "idle"
  /\ \E id \in DOMAIN testimonial :
       run' = [run EXCEPT ![r] =
         IF testimonial[id].status # "pending" THEN LifeRespond([@ EXCEPT !.id = id], 404)
         ELSE IF Expired(testimonial[id]) THEN LifeRespond([@ EXCEPT !.id = id], 400)
         ELSE [@ EXCEPT !.pc = "responses", !.id = id, !.seen = testimonial[id]]]
  /\ UNCHANGED <<testimonial, testimonial_responses, storage, fs, now, lifeVars, textVars>>

\* lines 837-846: the responses have been read
SubmitResponses(r, ok) ==
  /\ run[r].handler = "submit" /\ run[r].pc = "responses"
  /\ run' = [run EXCEPT ![r] = IF ok THEN [@ EXCEPT !.pc = "write"] ELSE LifeRespond(@, 500)]
  /\ UNCHANGED <<testimonial, testimonial_responses, storage, fs, now, lifeVars, textVars>>

\* lines 849-866: the response of the testimonial is updated with the
\* answer and the video_url of the request
SubmitWrite(r, ok) ==
  /\ run[r].handler = "submit" /\ run[r].pc = "write"
  /\ IF ok
     THEN /\ testimonial_responses' =
               { IF x.testimonial_id = run[r].id THEN [x EXCEPT !.video_url = SubmittedUrl]
                 ELSE x : x \in testimonial_responses }
          /\ run' = [run EXCEPT ![r].pc = "complete",
                                ![r].wrote = @ \cup {Found(testimonial[run[r].id])}]
     ELSE /\ testimonial_responses' = testimonial_responses
          /\ run' = [run EXCEPT ![r] = LifeRespond(@, 500)]
  /\ UNCHANGED <<testimonial, storage, fs, now, lifeVars, textVars>>

\* lines 869-888: .update({ status: 'completed' }).eq('id', testimonial.id)
SubmitComplete(r, ok) ==
  /\ run[r].handler = "submit" /\ run[r].pc = "complete"
  /\ IF ok
     THEN /\ testimonial' = [testimonial EXCEPT ![run[r].id].status = "completed"]
          /\ run' = [run EXCEPT ![r] =
               LifeRespond([@ EXCEPT !.wrote = @ \cup {Found(testimonial[run[r].id])}], 200)]
     ELSE /\ testimonial' = testimonial
          /\ run' = [run EXCEPT ![r] = LifeRespond(@, 500)]
  /\ UNCHANGED <<testimonial_responses, storage, fs, now, lifeVars, textVars>>

\* POST /testimonial/save, part_001 346-375: the testimonial is looked up by
\* token alone and its responses are read
SaveRead(r, ok) ==
  /\ run[r].handler = "save" /\ run[r].pc = "idle"
  /\ \E id \in DOMAIN testimonial :
       run' = [run EXCEPT ![r] =
         IF ok THEN [@ EXCEPT !.pc = "upload", !.id = id, !.seen = testimonial[id]]
         ELSE LifeRespond([@ EXCEPT !.id = id], 404)]
  /\ UNCHANGED <<testimonial, testimonial_responses, storage, fs, now, lifeVars, textVars>>

\* part_001 410-424: the clip of the request is uploaded, upsert: true
SaveUpload(r, ok) ==
  /\ run[r].handler = "save" /\ run[r].pc = "upload"
  /\ \E row \in { x \in testimonial_responses : x.testimonial_id = run[r].id } :
       IF ok
       THEN /\ storage' = storage \cup {[folder |-> "testimonial_videos", file |-> SavedUrl(row)]}
            /\ run' = [run EXCEPT ![r].pc = "write"]
       ELSE /\ storage' = storage
            /\ run' = [run EXCEPT ![r] = LifeRespond(@, 500)]
  /\ UNCHANGED <<testimonial, testimonial_responses, fs, now, lifeVars, textVars>>

\* part_001 434-442: .update({ video_url: publicUrl }).eq("id", matchingResponse.id)
SaveWrite(r, ok) ==
  /\ run[r].handler = "save" /\ run[r].pc = "write"
  /\ IF ok
     THEN /\ testimonial_responses' =
               { IF x.testimonial_id = run[r].id THEN [x EXCEPT !.video_url = SavedUrl(x)]
                 ELSE x : x \in testimonial_responses }
          /\ run' = [run EXCEPT ![r].pc = "complete",
                                ![r].wrote = @ \cup {Found(testimonial[run[r].id])}]
     ELSE /\ testimonial_responses' = testimonial_responses
          /\ run' = [run EXCEPT ![r] = LifeRespond(@, 500)]
  /\ UNCHANGED <<testimonial, storage, fs, now, lifeVars, textVars>>

\* part_001 445-457: .update({ status: "completed" }).eq("id", testimonial.id)
SaveComplete(r, ok) ==
  /\ run[r].handler = "save" /\ run[r].pc = "complete"
  /\ IF ok
     THEN /\ testimonial' = [testimonial EXCEPT ![run[r].id].status = "completed"]
          /\ run' = [run EXCEPT ![r] =
               LifeRespond([@ EXCEPT !.wrote = @ \cup {Found(testimonial[run[r].id])}], 200)]
     ELSE /\ testimonial' = testimonial
          /\ run' = [run EXCEPT ![r] = LifeRespond(@, 500)]
  /\ UNCHANGED <<testimonial_responses, storage, fs, now, lifeVars, textVars>>

\* POST /request/:id/cancel, testimonial.js 367-397:
\* .update({ status: 'cancelled' }).eq('id', id).eq('company_id', company_id)
CancelRequest(r, company_id, ok) ==
  /\ run[r].handler = "cancel" /\ run[r].pc = "idle"
  /\ \E id \in DOMAIN testimonial :
       IF ok /\ testimonial[id].company_id = company_id
       THEN /\ testimonial' = [testimonial EXCEPT ![id].status = "cancelled"]
            /\ run' = [run EXCEPT ![r] =
                 LifeRespond([@ EXCEPT !.id = id, !.seen = testimonial[id],
                                       !.wrote = {Found(testimonial[id])}], 200)]
       ELSE /\ testimonial' = testimonial
            /\ run' = [run EXCEPT ![r] =
                 LifeRespond([@ EXCEPT !.id = id, !.seen = testimonial[id]], 404)]
  /\ UNCHANGED <<testimonial_responses, storage, fs, now, lifeVars, textVars>>

\* the reminders recorded for testimonial id
Reminders(id) ==
  { e \in email_history : e.testimonial_id = id /\ e.email_type = "reminder" }

\* .from('email_history').insert({ testimonial_id, email_type: 'reminder', ... })
InsertReminder(id) ==
  email_history \cup
    {[id |-> Cardinality(email_history) + 1, testimonial_id |-> id, email_type |-> "reminder"]}

\* POST /request/:id/remind, lines 273-304: the pending testimonial is read
\* with its email_history; reminderCount is the number of its reminders + 1
RemindRead(r) ==
  /\ run[r].handler = "remind" /\ run[r].pc = "idle"
  /\ \E id \in DOMAIN testimonial :
       run' = [run EXCEPT ![r] =
         IF testimonial[id].status # "pending" THEN LifeRespond([@ EXCEPT !.id = id], 404)
         ELSE [@ EXCEPT !.pc = "send", !.id = id, !.seen = testimonial[id],
                        !.reminderCount = Cardinality(Reminders(id)) + 1]]
  /\ UNCHANGED <<testimonial, testimonial_responses, storage, fs, now, lifeVars, textVars>>

\* lines 311-321 (scheduler 46-57): the email has been sent, or not
ReminderSent(r, ok) ==
  /\ run[r].handler \in {"remind", "sendScheduledReminders"} /\ run[r].pc = "send"
  /\ run' = [run EXCEPT ![r] = IF ok THEN [@ EXCEPT !.pc = "history"] ELSE LifeRespond(@, 500)]
  /\ UNCHANGED <<testimonial, testimonial_responses, storage, fs, now, lifeVars, textVars>>

\* lines 324-336 (scheduler 60-72): the reminder is recorded in
\* email_history; an error of the insert is only logged
ReminderRecorded(r, ok) ==
  /\ run[r].handler \in {"remind", "sendScheduledReminders"} /\ run[r].pc = "history"
  /\ email_history' = IF ok THEN InsertReminder(run[r].id) ELSE email_history
  /\ run' = [run EXCEPT ![r].pc = "update"]
  /\ UNCHANGED <<testimonial, testimonial_responses, storage, fs, now, question, textVars>>

\* lines 339-355 (scheduler 75-88): .update({ last_reminder_sent,
\* reminder_count: reminderCount }).eq('id', id); an error is only logged
ReminderCounted(r, ok) ==
  /\ run[r].handler \in {"remind", "sendScheduledReminders"} /\ run[r].pc = "update"
  /\ testimonial' =
       IF ok THEN [testimonial EXCEPT ![run[r].id].reminder_count = run[r].reminderCount,
                                      ![run[r].id].last_reminder_sent = now]
       ELSE testimonial
  /\ run' = [run EXCEPT ![r] =
       LifeRespond([@ EXCEPT !.wrote = @ \cup (IF ok THEN {Found(testimonial[run[r].id])} ELSE {})],
                   200)]
  /\ UNCHANGED <<testimonial_responses, storage, fs, now, lifeVars, textVars>>

\* sendScheduledReminders, reminderScheduler.js 21-44: the pending
\* testimonials that are due a reminder are read; reminderCount is the
\* reminder_count read + 1
NeedsReminder(row) ==
  /\ row.status = "pending"
  /\ row.reminder_count < maxReminders
  /\ row.last_reminder_sent = -1 \/ row.last_reminder_sent < now - reminderIntervalDays

SchedRead(r, ok) ==
  /\ run[r].handler = "sendScheduledReminders" /\ run[r].pc = "idle"
  /\ \E id \in DOMAIN testimonial :
       run' = [run EXCEPT ![r] =
         IF ok /\ NeedsReminder(testimonial[id])
         THEN [@ EXCEPT !.pc = "send", !.id = id, !.seen = testimonial[id],
                        !.reminderCount = testimonial[id].reminder_count + 1]
         ELSE LifeRespond([@ EXCEPT !.id = id], 0)]
  /\ UNCHANGED <<testimonial, testimonial_responses, storage, fs, now, lifeVars, textVars>>

\* markExpiredTestimonials, reminderScheduler.js 106-130: one update,
\* .eq('status', 'pending').lt('expires_at', now)
MarkExpired(r, ok) ==
  /\ run[r].handler = "markExpiredTestimonials" /\ run[r].pc = "idle"
  /\ LET due == { id \in DOMAIN testimonial :
                    testimonial[id].status = "pending" /\ testimonial[id].expires_at < now }
     IN  /\ testimonial' =
              IF ok THEN [id \in DOMAIN testimonial |->
                            IF id \in due THEN [testimonial[id] EXCEPT !.status = "expired"]
                            ELSE testimonial[id]]
              ELSE testimonial
         /\ run' = [run EXCEPT ![r] =
              LifeRespond([@ EXCEPT !.wrote = IF ok THEN { Found(testimonial[id]) : id \in due }
                                              ELSE {}], 0)]
  /\ UNCHANGED <<testimonial_responses, storage, fs, now, lifeVars, textVars>>

\* a day passes
Day ==
  /\ now < MaxTime
  /\ now' = now + 1
  /\ UNCHANGED <<testimonial, testimonial_responses, storage, fs, run, lifeVars, textVars>>

\* one pending request of company 1 with one question, expiring after day 2
LifeTables ==
  /\ testimonial = [t \in {1} |->
       [status |-> "pending", expires_at |-> 2, reminder_count |-> 0,
        last_reminder_sent |-> -1, company_id |-> 1, video_url |-> NoKey]]
  /\ testimonial_responses =
       { [id |-> x.id, testimonial_id |-> x.testimonial_id, question_id |-> x.question_id,
          video_url |-> NoUrl] : x \in RowsOf(1, 1) }
  /\ storage = {}
  /\ fs = {}
  /\ now = 0
  /\ email_history = {}
  /\ question = {}

\* one request to each public operation, a cancellation and one run of
\* markExpiredTestimonials
InitLife ==
  /\ LifeTables
  /\ run = [r \in 1..4 |->
       LifeRun(<<"submit", "save", "cancel", "markExpiredTestimonials">>[r])]
  /\ SanIdle
  /\ CardIdle

\* a manual reminder, a run of each scheduled job and a cancellation
InitRemind ==
  /\ LifeTables
  /\ run = [r \in 1..4 |->
       LifeRun(<<"remind", "sendScheduledReminders", "markExpiredTestimonials",
                 "cancel">>[r])]
  /\ SanIdle
  /\ CardIdle

NextLife ==
  \/ Day
  \/ \E r \in DOMAIN run : SubmitRead(r)
  \/ \E r \in DOMAIN run, ok \in BOOLEAN : SubmitResponses(r, ok)
  \/ \E r \in DOMAIN run, ok \in BOOLEAN : SubmitWrite(r, ok)
  \/ \E r \in DOMAIN run, ok \in BOOLEAN : SubmitComplete(r, ok)
  \/ \E r \in DOMAIN run, ok \in BOOLEAN : SaveRead(r, ok)
  \/ \E r \in DOMAIN run, ok \in BOOLEAN : SaveUpload(r, ok)
  \/ \E r \in DOMAIN run, ok \in BOOLEAN : SaveWrite(r, ok)
  \/ \E r \in DOMAIN run, ok \in BOOLEAN : SaveComplete(r, ok)
  \/ \E r \in DOMAIN run, company_id \in {1, 2}, ok \in BOOLEAN : CancelRequest(r, company_id, ok)
  \/ \E r \in DOMAIN run, ok \in BOOLEAN : MarkExpired(r, ok)

NextRemind ==
  \/ Day
  \/ \E r \in DOMAIN run : RemindRead(r)
  \/ \E r \in DOMAIN run, ok \in BOOLEAN : ReminderSent(r, ok)
  \/ \E r \in DOMAIN run, ok \in BOOLEAN : ReminderRecorded(r, ok)
  \/ \E r \in DOMAIN run, ok \in BOOLEAN : ReminderCounted(r, ok)
  \/ \E r \in DOMAIN run, ok \in BOOLEAN : SchedRead(r, ok)
  \/ \E r \in DOMAIN run, ok \in BOOLEAN : MarkExpired(r, ok)
  \/ \E r \in DOMAIN run, company_id \in {1, 2}, ok \in BOOLEAN : CancelRequest(r, company_id, ok)

SpecLife == InitLife /\ [][NextLife]_vars

SpecRemind == InitRemind /\ [][NextRemind]_vars

(***************************************************************************)
(* The questions of a company and their order_position (routes /add,      *)
(* /delete and /update-position).                                          *)
(***************************************************************************)
\* the number of questions of the company at the start
MaxQuestions == 3

\* the state of a question request that has not started
QuestionRun(handler) ==
  [ handler |-> handler, pc |-> "idle", id |-> 0, status |-> 0, position |-> 0,
    currentPosition |-> 0, newPosition |-> 0, reordered |-> <<>>, j |-> 1 ]

QuestionRespond(r, code) == [r EXCEPT !.pc = "done", !.status = code]

\* .order("order_position", { ascending: false }).limit(1), then
\* maxPositionData.length > 0 ? (maxPositionData[0].order_position || 0) + 1 : 1
NextPosition(rows) ==
  IF rows = {} THEN 1
  ELSE (CHOOSE m \in { x.order_position : x \in rows } :
          \A x \in rows : x.order_position <= m) + 1

\* /add without order_position, lines 44-60: the greatest position is read
AddRead(r, ok) ==
  /\ run[r].handler = "add" /\ run[r].pc = "idle"
  /\ run' = [run EXCEPT ![r] =
       IF ok THEN [@ EXCEPT !.pc = "insert", !.id = 10 + r, !.position = NextPosition(question)]
       ELSE QuestionRespond(@, 500)]
  /\ UNCHANGED <<testimonial, testimonial_responses, storage, fs, now, lifeVars, textVars>>

\* lines 63-79: the question is inserted with the position computed
AddInsert(r, ok) ==
  /\ run[r].handler = "add" /\ run[r].pc = "insert"
  /\ IF ok
     THEN /\ question' = question \cup {[id |-> run[r].id, order_position |-> run[r].position]}
          /\ run' = [run EXCEPT ![r] = QuestionRespond(@, 200)]
     ELSE /\ question' = question
          /\ run' = [run EXCEPT ![r] = QuestionRespond(@, 400)]
  /\ UNCHANGED <<testimonial, testimonial_responses, storage, fs, now, email_history, textVars>>

\* /delete, lines 116-140: .delete().eq("id", id).eq("company_id", company_id)
DeleteQuestion(r, ok) ==
  /\ run[r].handler = "delete" /\ run[r].pc = "idle"
  /\ \E q \in question :
       IF ok
       THEN /\ question' = question \ {q}
            /\ run' = [run EXCEPT ![r] = QuestionRespond([@ EXCEPT !.id = q.id], 200)]
       ELSE /\ question' = question
            /\ run' = [run EXCEPT ![r] = QuestionRespond([@ EXCEPT !.id = q.id], 400)]
  /\ UNCHANGED <<testimonial, testimonial_responses, storage, fs, now, email_history, textVars>>

\* /update-position, lines 143-171: the question is read; a request for the
\* position it has ends here
UpdateRead(r, ok, newPosition) ==
  /\ run[r].handler = "update-position" /\ run[r].pc = "idle"
  /\ \E q \in question :
       run' = [run EXCEPT ![r] =
         IF ~ok THEN QuestionRespond([@ EXCEPT !.id = q.id], 404)
         ELSE IF q.order_position = newPosition
         THEN QuestionRespond([@ EXCEPT !.id = q.id, !.currentPosition = q.order_position,
                                        !.newPosition = newPosition], 200)
         ELSE [@ EXCEPT !.pc = "list", !.id = q.id, !.currentPosition = q.order_position,
                        !.newPosition = newPosition]]
  /\ UNCHANGED <<testimonial, testimonial_responses, storage, fs, now, lifeVars, textVars>>

\* .order("order_position", { ascending: true }): every order the query may
\* return the rows in
Ascending(rows) ==
  { s \in Orders(rows) :
      \A a, b \in 1..Len(s) : a < b => s[a].order_position <= s[b].order_position }

\* lines 183-199: the list of updates; the question moved gets newPosition,
\* the questions between the two positions move by one
Reordered(allQuestions, id, currentPosition, newPosition) ==
  LET Moved(q) ==
        IF q.id = id THEN <<[id |-> id, order_position |-> newPosition]>>
        ELSE IF currentPosition < newPosition
        THEN IF q.order_position > currentPosition /\ q.order_position <= newPosition
             THEN <<[id |-> q.id, order_position |-> q.order_position - 1]>>
             ELSE <<>>
        ELSE IF q.order_position >= newPosition /\ q.order_position < currentPosition
             THEN <<[id |-> q.id, order_position |-> q.order_position + 1]>>
             ELSE <<>>
      F[k \in 0..Len(allQuestions)] ==
        IF k = 0 THEN <<>> ELSE F[k - 1] \o Moved(allQuestions[k])
  IN  F[Len(allQuestions)]

\* lines 173-199: all questions of the company are read and the list of
\* updates is built
UpdateList(r, ok) ==
  /\ run[r].handler = "update-position" /\ run[r].pc = "list"
  /\ \E allQuestions \in Ascending(question) :
       run' = [run EXCEPT ![r] =
         IF ok
         THEN [@ EXCEPT !.pc = "apply", !.j = 1,
                        !.reordered = Reordered(allQuestions, run[r].id,
                                                run[r].currentPosition, run[r].newPosition)]
         ELSE QuestionRespond(@, 500)]
  /\ UNCHANGED <<testimonial, testimonial_responses, storage, fs, now, lifeVars, textVars>>

\* .update({ order_position }).eq("id", id)
SetPosition(rows, q) ==
  { IF x.id = q.id THEN [x EXCEPT !.order_position = q.order_position] ELSE x : x \in rows }

\* lines 202-218: the updates are applied one by one; the first that fails
\* ends the request with 500
UpdateApply(r, ok) ==
  /\ run[r].handler = "update-position" /\ run[r].pc = "apply"
  /\ IF run[r].j > Len(run[r].reordered)
     THEN /\ question' = question
          /\ run' = [run EXCEPT ![r] = QuestionRespond(@, 200)]
     ELSE IF ok
     THEN /\ question' = SetPosition(question, run[r].reordered[run[r].j])
          /\ run' = [run EXCEPT ![r].j = @ + 1]
     ELSE /\ question' = question
          /\ run' = [run EXCEPT ![r] = QuestionRespond(@, 500)]
  /\ UNCHANGED <<testimonial, testimonial_responses, storage, fs, now, email_history, textVars>>

\* MaxQuestions questions at the positions 1..MaxQuestions; two requests to
\* add a question, one to delete one and one to move one
InitQuestions ==
  /\ question = { [id |-> k, order_position |-> k] : k \in 1..MaxQuestions }
  /\ run = [r \in 1..4 |-> QuestionRun(<<"add", "add", "delete", "update-position">>[r])]
  /\ testimonial = <<>>
  /\ testimonial_responses = {}
  /\ storage = {}
  /\ fs = {}
  /\ now = 0
  /\ email_history = {}
  /\ SanIdle
  /\ CardIdle

NextQuestions ==
  \/ \E r \in DOMAIN run, ok \in BOOLEAN : AddRead(r, ok)
  \/ \E r \in DOMAIN run, ok \in BOOLEAN : AddInsert(r, ok)
  \/ \E r \in DOMAIN run, ok \in BOOLEAN : DeleteQuestion(r, ok)
  \/ \E r \in DOMAIN run, ok \in BOOLEAN, newPosition \in 1..(MaxQuestions + 1) :
        UpdateRead(r, ok, newPosition)
  \/ \E r \in DOMAIN run, ok \in BOOLEAN : UpdateList(r, ok)
  \/ \E r \in DOMAIN run, ok \in BOOLEAN : UpdateApply(r, ok)

SpecQuestions == InitQuestions /\ [][NextQuestions]_vars

(***************************************************************************)
(* Properties.                                                             *)
(***************************************************************************)
InFlight(r) == run[r].pc \notin {"idle", "done"}
CollectingDone(r) == run[r].pc \in {"intro", "title", "concat", "upload", "update", "done"}
ManifestBuilt(r) == run[r].concatListPath # NoPath
Ids(rows) == { rows[k].id : k \in 1..Len(rows) }
TitlesOf(list) == SelectSeq(list, LAMBDA f : f.kind = "question")
FatalStages == {"intro", "title", "concat", "upload", "cleanup"}

\* C1: once a composition run has ended, with success or with failure at
\* any stage, no file the run created is left in the working directory.
NoTransientFileLeft ==
  \A r \in DOMAIN run : run[r].pc = "done" => run[r].made \cap fs = {}

\* C2: the (title card, clip) pairs of the manifest are in ascending order
\* of the order_position of their questions, whatever the order in which
\* the responses were returned and fetched.
ManifestInQuestionOrder ==
  \A r \in DOMAIN run :
    ManifestBuilt(r) =>
      LET titles == TitlesOf(run[r].concatList)
      IN  \A a, b \in 1..Len(titles) :
            a < b => order_position(titles[a].id) < order_position(titles[b].id)

\* C3: when k of the N responses fail to fetch or normalize, 0 < k < N, the
\* run is not ended by these failures: it ends in success, with the
\* artifact uploaded, unless a card, the concatenation, the upload or the
\* cleanup fails;
\* and its manifest has exactly 1 + 2(N-k) entries, holding the title card
\* and the clip of every surviving response and neither of a failed one.
PartialFailureStillComposes ==
  \A r \in DOMAIN run :
    LET N == Len(run[r].responses)
        k == Cardinality(run[r].skipped)
    IN  (CollectingDone(r) /\ 0 < k /\ k < N) =>
          /\ run[r].pc = "done" =>
               \/ /\ run[r].status = 200
                  /\ run[r].uploaded
                  /\ run[r].mergedVideoUrl \in storage
               \/ /\ run[r].status = 500
                  /\ run[r].failedAt \in FatalStages
          /\ ManifestBuilt(r) =>
               /\ Len(run[r].concatList) = 1 + 2 * (N - k)
               /\ \A n \in 1..N :
                    LET response == run[r].responses[n]
                        inTitle == \E f \in Seq2Set(run[r].concatList) :
                                      f.kind = "question" /\ f.id = response.question_id
                        inClip == \E f \in Seq2Set(run[r].concatList) :
                                      f.kind = "clip" /\ f.id = response.id
                    IN  IF response.id \in run[r].skipped
                        THEN ~inTitle /\ ~inClip
                        ELSE inTitle /\ mp4Path(response.video_url) \in Seq2Set(run[r].concatList)

\* C3, its case: a run of three responses, one of them failed, has ended in
\* success with a manifest of five entries.
PartialFailureWitness ==
  \E r \in DOMAIN run :
    /\ run[r].pc = "done" /\ run[r].status = 200
    /\ Len(run[r].responses) = 3 /\ Cardinality(run[r].skipped) = 1
    /\ Len(run[r].concatList) = 5
    /\ run[r].mergedVideoUrl \in storage

\* C4: when no response survives fetch and normalization, the run ends in
\* failure: no intro card is generated, nothing is uploaded and the
\* testimonial's video_url is unchanged.
NoSurvivorNoComposition ==
  \A r \in DOMAIN run :
    ( /\ run[r].pc \notin {"idle", "download", "convert"}
      /\ run[r].responses # <<>>
      /\ run[r].skipped = Ids(run[r].responses) ) =>
        /\ run[r].pc = "done"
        /\ run[r].status = 400
        /\ run[r].introPath = NoPath
        /\ ~run[r].uploaded
        /\ ~run[r].updated
        /\ storage = {}
        /\ testimonial[run[r].id].video_url = run[r].before

\* C4, its case: every response failed, one of them after its clip had been
\* downloaded, and the run has ended.
NoSurvivorWitness ==
  \E r \in DOMAIN run :
    /\ run[r].pc = "done"
    /\ run[r].responses # <<>>
    /\ run[r].skipped = Ids(run[r].responses)
    /\ run[r].made # {}

\* C5: two runs in flight for two different testimonials never create the
\* same local path.
RunsShareNoPath ==
  \A r1, r2 \in DOMAIN run :
    (r1 # r2 /\ InFlight(r1) /\ InFlight(r2) /\ run[r1].id # run[r2].id) =>
      run[r1].made \cap run[r2].made = {}

\* C6: two runs for the same testimonial are never in flight together.
OneRunPerTestimonial ==
  \A r1, r2 \in DOMAIN run :
    (r1 # r2 /\ InFlight(r1) /\ InFlight(r2)) => run[r1].id # run[r2].id

\* C7: the text every handler interpolates into the drawtext argument of a
\* card command is the sanitized form of the user's text.
EveryCardTextSanitized ==
  cardCmd # NoCmd => cardCmd.text = sanitizeDrawText(cardText)

\* C8: embedded in the command line, the sanitized text does not end the
\* single-quoted drawtext value, does not end the double-quoted shell word
\* and starts no shell expansion in it.
SanitizedTextIsInert ==
  sanPc # "in" =>
    LET cmd == ffmpegCommandIntro(sanOut)
    IN  /\ FilterClose(cmd) = Len(drawtextPrefix) + Len(sanOut) + 1
        /\ ShellClose(cmd) = Len(cmd)
        /\ ~ShellExpands(cmd)

\* the characters the sanitizer is to remove
Reserved == {"SQUOTE", "DQUOTE", "COLON", "SEMI", "LBRACK", "RBRACK", "BSLASH"}

\* C9: the output of sanitizeDrawText holds no single quote, double quote,
\* colon, semicolon, square bracket or backslash.
SanitizedHasNoReserved ==
  sanPc # "in" => \A c \in Reserved : ~Contains(sanOut, c)

\* C9, its case: an input made of reserved characters only has been
\* sanitized.
ReservedInputWitness ==
  /\ sanPc = "once"
  /\ Len(sanIn) = MaxLen
  /\ \A k \in 1..Len(sanIn) : sanIn[k] \in Reserved

\* C10: sanitizeDrawText is idempotent.
SanitizeIdempotent ==
  sanPc = "twice" => sanTwice = sanOut

\* C10, its case: a text the sanitizer changes has been sanitized twice.
SanitizedTwiceWitness ==
  /\ sanPc = "twice"
  /\ sanOut # sanIn
  /\ Contains(sanIn, "COLON")

CardStages == {"intro", "title", "concat"}

\* C11: when the generation of the intro card or of a title card, or the
\* concatenation, fails, the run ends with status 500: the run does not go
\* on without the card, no merged file is made, nothing is uploaded and the
\* testimonial's record is as it was.
CardFailureIsFatal ==
  \A r \in DOMAIN run :
    run[r].failedAt \in CardStages =>
      /\ run[r].pc = "done"
      /\ run[r].status = 500
      /\ run[r].mergedPath \notin fs
      /\ ~run[r].uploaded
      /\ ~run[r].updated
      /\ storage = {}
      /\ testimonial[run[r].id].video_url = run[r].before

\* C11, its case: the second title card failed after the intro card and
\* the first title card had been made.
CardFailureWitness ==
  \E r \in DOMAIN run :
    /\ run[r].pc = "done"
    /\ run[r].failedAt = "title"
    /\ run[r].j = 2
    /\ run[r].introPath \in fs

\* the columns of the record a run owns, as they are now
OwnedRecord(r) ==
  IF run[r].handler = "merge"
  THEN testimonial[run[r].id].video_url
  ELSE IntroColumns(CHOOSE x \in testimonial_responses : x.id = run[r].id)

\* C12: a run whose upload failed has ended with status 500 and has not
\* written its record: the testimonial's video_url (merge), the response's
\* intro_video_url and intro_generated (generate-intro) are as they were
\* when the run read them.
UploadFailureLeavesRecord ==
  \A r \in DOMAIN run :
    run[r].failedAt = "upload" =>
      /\ run[r].pc = "done"
      /\ run[r].status = 500
      /\ ~run[r].uploaded
      /\ ~run[r].updated
      /\ OwnedRecord(r) = run[r].before

\* C12, its case: the upload of a merge and the upload of a generate-intro
\* have failed, each after its final file had been made.
UploadFailureWitness ==
  /\ \A r \in DOMAIN run :
       /\ run[r].pc = "done" /\ run[r].failedAt = "upload"
       /\ run[r].mergedPath \in fs
  /\ \E r \in DOMAIN run : run[r].handler = "generate-intro"
  /\ \E r \in DOMAIN run : run[r].handler = "merge"

\* C13: a run that has reported success with the URL u has updated the
\* testimonial's record, which holds video_url = u.
SuccessMeansRecordUpdated ==
  \A r \in DOMAIN run :
    (run[r].handler = "merge" /\ run[r].pc = "done" /\ run[r].status = 200) =>
      /\ run[r].updated
      /\ testimonial[run[r].id].video_url = run[r].mergedVideoUrl

\* C14: a run that has uploaded its artifact and updated the record ends
\* with status 200, and of the files its cleanup is to delete at most the
\* one whose deletion failed is left.
CleanupFailureIsHarmless ==
  \A r \in DOMAIN run :
    (run[r].handler = "merge" /\ run[r].pc = "done" /\ run[r].uploaded /\ run[r].updated) =>
      /\ run[r].status = 200
      /\ Cardinality(CleanupFiles(run[r]) \cap fs) <= 1

\* the place of the response id in rows
IndexOf(rows, id) == (CHOOSE k \in 1..Len(rows) : rows[k].id = id)

\* C15: with N responses fetched and normalized (the entries of
\* downloadedVideos, one for every response not passed over), the manifest
\* has 1 + 2N entries: the intro card, then for the k-th of them the title
\* card of its question and, next to it, its own normalized clip.
ManifestShape ==
  \A r \in DOMAIN run :
    (run[r].handler = "merge" /\ ManifestBuilt(r)) =>
      LET videos == run[r].downloadedVideos
          N == Len(videos)
          list == run[r].concatList
      IN  /\ { videos[k].response : k \in 1..N } = Ids(run[r].responses) \ run[r].skipped
          /\ N = Cardinality(Ids(run[r].responses) \ run[r].skipped)
          /\ Len(list) = 1 + 2 * N
          /\ list[1] = run[r].introPath
          /\ \A k \in 1..N :
               LET response == run[r].responses[IndexOf(run[r].responses, videos[k].response)]
               IN  /\ list[2 * k].kind = "question"
                   /\ list[2 * k].id = response.question_id
                   /\ list[2 * k + 1] = mp4Path(response.video_url)
                   /\ list[2 * k + 1].id = response.id

\* C15, its case: a manifest of a run in which two responses were
\* normalized and one was passed over.
ManifestShapeWitness ==
  \E r \in DOMAIN run :
    /\ ManifestBuilt(r)
    /\ Len(run[r].downloadedVideos) = 2
    /\ Len(run[r].concatList) = 5
    /\ run[r].skipped # {}

\* the stages a run has been through, read from what it has made: no card
\* before the collecting is over, no manifest before the last card, no
\* upload before the merged file, no update before the upload
StagesInOrder(r) ==
  /\ run[r].introPath # NoPath =>
       run[r].i > Len(run[r].responses) /\ run[r].downloadedVideos # <<>>
  /\ ManifestBuilt(r) =>
       /\ run[r].introPath \in run[r].made
       /\ \A f \in Seq2Set(run[r].concatList) : f.kind = "question" => f \in run[r].made
  /\ (run[r].pc \in {"upload", "update"} \/ run[r].uploaded) =>
       ManifestBuilt(r) /\ run[r].mergedPath \in run[r].made
  /\ (run[r].pc = "update" \/ run[r].updated) => run[r].uploaded

\* C16: the stages of a run happen in the order collecting and normalizing,
\* cards, concatenation, upload, update of the record, and success is
\* reported only after the upload has succeeded and the record has been
\* updated.
SuccessAfterUploadAndUpdate ==
  \A r \in DOMAIN run :
    run[r].handler = "merge" =>
      /\ StagesInOrder(r)
      /\ (run[r].pc = "done" /\ run[r].status = 200) => (run[r].uploaded /\ run[r].updated)

\* C17: while a run works on its clips, for every response it holds as
\* normalized the normalized file is there and the raw file, when it is
\* another file, is gone; for every response whose raw file was written
\* and whose normalization failed, the raw file is still there.
RawDeletedOnlyOnSuccess ==
  \A r \in DOMAIN run :
    (run[r].handler = "merge" /\ run[r].pc \notin {"idle", "done"}) =>
      \A n \in 1..Len(run[r].responses) :
        LET response == run[r].responses[n]
            orig == originalPath(response.video_url)
            mp4 == mp4Path(response.video_url)
            normalized == \E k \in 1..Len(run[r].downloadedVideos) :
                             run[r].downloadedVideos[k].response = response.id
        IN  /\ normalized => (mp4 \in fs /\ (orig # mp4 => orig \notin fs))
            /\ (response.id \in run[r].skipped /\ orig \in run[r].made) => orig \in fs

\* C18: when a generate-intro run has reported success with the URL u, the
\* response holds intro_video_url = u and intro_generated = TRUE and its
\* video_url is as it was; when it has reported a failure,
\* intro_video_url and intro_generated are as they were.
IntroResultMatchesRecord ==
  \A r \in DOMAIN run :
    (run[r].handler = "generate-intro" /\ run[r].pc = "done") =>
      LET row == CHOOSE x \in testimonial_responses : x.id = run[r].id
      IN  IF run[r].status = 200
          THEN /\ row.intro_video_url = run[r].mergedVideoUrl
               /\ row.intro_generated
               /\ row.video_url = run[r].before.video_url
          ELSE /\ row.intro_video_url = run[r].before.intro_video_url
               /\ row.intro_generated = run[r].before.intro_generated

\* C19: two runs that have failed at the same stage have sent the same
\* response: the status and the body do not tell the diagnostics apart.
FailureBodyHidesDiagnostic ==
  \A r1, r2 \in DOMAIN run :
    ( /\ run[r1].pc = "done" /\ run[r2].pc = "done"
      /\ run[r1].failedAt # "" /\ run[r1].failedAt = run[r2].failedAt ) =>
        /\ run[r1].status = run[r2].status
        /\ run[r1].body = run[r2].body

\* C20: a response is held as normalized only if ffmpeg has written its
\* output file: a response whose normalization exited 0 without output is
\* passed over, and every path of the manifest names a file that its
\* subprocess has produced.
OutputCheckedBeforeUse ==
  \A r \in DOMAIN run :
    run[r].handler = "merge" =>
      /\ \A k \in 1..Len(run[r].downloadedVideos) :
           run[r].downloadedVideos[k].path \in run[r].made
      /\ ManifestBuilt(r) => Seq2Set(run[r].concatList) \subseteq run[r].made

\* C21: every run that has started ends, in success or in failure.
EveryRunTerminates ==
  \A r \in {1} : (run[r].pc # "idle") ~> (run[r].pc = "done")

\* C22: the result of a successful run holds the number of included
\* responses, equal to the number of clips of the manifest, and a number of
\* skipped responses; the two add up to the number of the testimonial's
\* responses.
ResultCountsResponses ==
  \A r \in DOMAIN run :
    (run[r].handler = "merge" /\ run[r].pc = "done" /\ run[r].status = 200) =>
      LET clips == SelectSeq(run[r].concatList, LAMBDA f : f.kind = "clip")
          counts == DOMAIN run[r].result \ {"mergedVideoUrl", "message"}
      IN  /\ "videosIncluded" \in counts
          /\ run[r].result.videosIncluded = Len(clips)
          /\ \E key \in counts \ {"videosIncluded"} :
               run[r].result.videosIncluded + run[r].result[key] = Len(run[r].responses)

\* C23: no upload is refused because the object exists, and a run that
\* started after a completed run of the same testimonial (it read the
\* first run's URL in the record) and has reported success has left its
\* own URL in the record.
RerunReplacesArtifact ==
  \A r \in DOMAIN run :
    run[r].handler = "merge" =>
      /\ run[r].uploadError # "The resource already exists"
      /\ (run[r].pc = "done" /\ run[r].status = 200 /\ run[r].before # NoKey) =>
           testimonial[run[r].id].video_url = run[r].mergedVideoUrl

\* C24: when the concatenation is invoked every path of the manifest names
\* a file that exists, and no path of the manifest comes from a clip whose
\* stored name does not end in .webm.
ManifestFilesExist ==
  \A r \in DOMAIN run :
    (run[r].handler = "merge" /\ run[r].pc = "concat") =>
      /\ Seq2Set(run[r].concatList) \subseteq fs
      /\ \A k \in 1..Len(run[r].responses) :
           LET response == run[r].responses[k]
           IN  (response.video_url # NoUrl /\ response.video_url.ext # "webm") =>
                  originalPath(response.video_url) \notin Seq2Set(run[r].concatList)

\* C25: a token-authenticated public operation (submit, save) writes to a
\* testimonial or to its responses only while the testimonial is pending
\* and has not expired.
PublicWritesOnlyPending ==
  \A r \in DOMAIN run :
     run[r].handler \in {"submit", "save"} =>
       \A w \in run[r].wrote : w.status = "pending" /\ ~w.expired

\* C26: a scheduled job (sendScheduledReminders, markExpiredTestimonials)
\* writes to a testimonial only if its status is pending at the time of the
\* write.
ScheduledWritesOnlyPending ==
  \A r \in DOMAIN run :
     run[r].handler \in {"sendScheduledReminders", "markExpiredTestimonials"} =>
       \A w \in run[r].wrote : w.status = "pending"

\* C27: a cancellation that finds the testimonial completed is answered
\* with an error and writes nothing.
CancelKeepsCompleted ==
  \A r \in DOMAIN run :
     (run[r].handler = "cancel" /\ run[r].pc = "done" /\ run[r].seen.status = "completed") =>
       (run[r].status = 404 /\ run[r].wrote = {})

\* the testimonial a composition request is about
Requested(r) ==
  IF run[r].handler = "merge" THEN testimonial[run[r].id]
  ELSE testimonial[run[r].responses[1].testimonial_id]

\* a started composition request of a user of another company
Foreign(r) ==
  /\ run[r].handler \in {"merge", "generate-intro"}
  /\ run[r].pc \notin {"idle", "request"}
  /\ run[r].company_id # Requested(r).company_id

\* C28: a composition request (merge, generate-intro) for a testimonial of
\* another company than the caller's is refused (404, 403) and has created
\* no file, run no subprocess, uploaded nothing and updated no record.
ForeignRequestDoesNothing ==
  \A r \in DOMAIN run :
    Foreign(r) =>
      /\ run[r].pc = "done"
      /\ run[r].status \in (IF run[r].handler = "merge" THEN {404} ELSE {403, 404})
      /\ run[r].made = {}
      /\ ~run[r].uploaded
      /\ ~run[r].updated
      /\ OwnedRecord(r) = run[r].before

\* both handlers have refused a request of another company
ForeignRequestWitness ==
  /\ \A r \in DOMAIN run : Foreign(r)
  /\ \E r \in DOMAIN run : run[r].handler = "merge"
  /\ \E r \in DOMAIN run : run[r].handler = "generate-intro"

\* no reminder is being sent
NoReminderInFlight ==
  \A r \in DOMAIN run :
    run[r].handler \in {"remind", "sendScheduledReminders"} => run[r].pc \in {"idle", "done"}

\* C29: when no reminder is being sent, reminder_count of a testimonial is
\* the number of its email_history rows of type 'reminder'.
CountMatchesHistory ==
  NoReminderInFlight =>
    \A id \in DOMAIN testimonial :
      testimonial[id].reminder_count = Cardinality(Reminders(id))

\* no question request is in flight
NoQuestionInFlight ==
  \A r \in DOMAIN run :
    run[r].handler \in {"add", "delete", "update-position"} => run[r].pc \in {"idle", "done"}

\* C30: when no question request is in flight, the questions of the company
\* have pairwise distinct order_position.
PositionsDistinct ==
  NoQuestionInFlight =>
    \A a, b \in question : a.id # b.id => a.order_position # b.order_position

====
